---------------------------- MODULE Spec2Model ----------------------------
(***************************************************************************)
(* Model of the block-header DAG commitment model (xelis_common/block) and *)
(* of the chain-synchronisation messages (xelis_daemon/p2p/packet/chain).  *)
(*                                                                         *)
(* Byte strings are sequences of integers 0..255.  A Hash is a sequence of *)
(* HASH_SIZE bytes.  u8/u16/u64 values are integers (the model only draws  *)
(* u64 values below 2^31); a u128 is the record [hi, lo] of its two 64-bit *)
(* halves, so that values above 2^64 exist in the model.                   *)
(***************************************************************************)
EXTENDS Integers, Sequences, FiniteSets, Bags, TLC

VARIABLES
    \* ---- chain synchronisation session -------------------------------
    pc,         \* position of the request/response round trip
    req,        \* the requester's ChainRequest value (None if the bytes are a peer's own)
    reqWire,    \* the request bytes in flight
    reqRead,    \* the responder's ChainRequest::read result
    dag,        \* the responder's DAG snapshot used to build the response
    resp,       \* the responder's ChainResponse value (None if the bytes are a peer's own)
    respWire,   \* the response bytes in flight
    respRead,   \* the requester's ChainResponse::read result
    \* ---- block header ------------------------------------------------
    hpc,        \* position of the header's life cycle
    header,     \* the BlockHeader being built / mined
    prev,       \* the header before the last operation on it
    op,         \* the last operation applied to the header
    cachedWork, \* get_work() / get_work_hash() as cached when the header was built
    panicked,   \* a size check of get_work / get_serialized_header has failed
    wire,       \* the bytes BlockHeader::write produced
    decoded,    \* the BlockHeader::read result
    \* ---- the requester's use of a decoded ChainResponse ---------------
    held,      \* the decoded ChainResponse as get_common_point leaves it
    got,        \* what the calls of get_common_point returned, in order
    rewire,     \* the bytes of a ChainResponse::write performed after the calls
    \* ---- block ------------------------------------------------------
    bpc,        \* position of the block's life cycle
    block,      \* the Block built by Block::new
    blockWire,  \* the bytes Block::write produced
    blockRead,  \* the Block::read result
    json,       \* the header's timestamp field in the JSON form
    jsonRead,   \* the timestamp read back from the JSON form
    \* ---- JSON-RPC client --------------------------------------------
    count,      \* JsonRPCClient.count
    tasks,      \* each concurrent invocation: its position and the id it fetched
    posted      \* the JSON bodies posted to the server, a bag

syncVars == <<pc, req, reqWire, reqRead, dag, resp, respWire, respRead>>
headerVars == <<hpc, header, prev, op, cachedWork, panicked, wire, decoded>>
takeVars == <<held, got, rewire>>
blockVars == <<bpc, block, blockWire, blockRead, json, jsonRead>>
rpcVars == <<count, tasks, posted>>
vars == <<pc, req, reqWire, reqRead, dag, resp, respWire, respRead,
          hpc, header, prev, op, cachedWork, panicked, wire, decoded,
          held, got, rewire,
          bpc, block, blockWire, blockRead, json, jsonRead,
          count, tasks, posted>>
\* what a step of the request/response round trip, and of the header's life
\* cycle, leaves alone
outsideRoundTrip == <<headerVars, takeVars, blockVars, rpcVars>>
outsideHeader == <<syncVars, takeVars, blockVars, rpcVars>>

\* Option<T>: None is the empty sequence, Some(x) the one-element sequence
None == <<>>
Some(x) == <<x>>

(***************************************************************************)
(* Bounds of the model.                                                    *)
(***************************************************************************)
\* hash identifiers 0..MaxHashId the peers draw block hashes from (0: the all-zero digest)
MaxHashId == 2
\* the header's tips and txs_hashes hold at most MaxList hashes together
MaxList == 2

(***************************************************************************)
(* Program constants.                                                      *)
(***************************************************************************)
HASH_SIZE == 32
KEY_LENGTH == 32
EXTRA_NONCE_SIZE == 32
HEADER_WORK_SIZE == 73
BLOCK_WORK_SIZE == 120

\* crate::config, a small deployment: the protocol bounds are deployment-set
CHAIN_SYNC_REQUEST_MAX_BLOCKS == 2
CHAIN_SYNC_RESPONSE_MIN_BLOCKS == 2
CHAIN_SYNC_RESPONSE_MAX_BLOCKS == 3
CHAIN_SYNC_TOP_BLOCKS == 1
TIPS_LIMIT == 2

(***************************************************************************)
(* Writer / Reader primitives: big-endian fixed-width integers, raw bytes. *)
(***************************************************************************)
Pow256(k) == IF k = 0 THEN 1 ELSE IF k = 1 THEN 256 ELSE IF k = 2 THEN 65536 ELSE 16777216

\* the low 4 bytes carry the value, the bytes above are zero (values < 2^31)
to_be_bytes(n, width) ==
    [i \in 1..width |-> IF width - i > 3 THEN 0 ELSE (n \div Pow256(width - i)) % 256]

RECURSIVE from_be_bytes(_)
from_be_bytes(bs) ==
    IF Len(bs) = 0 THEN 0
    ELSE from_be_bytes(SubSeq(bs, 1, Len(bs) - 1)) * 256 + bs[Len(bs)]

\* a cast that stops at the largest value instead of wrapping
as_u8_Saturating(n) == IF n > 255 THEN 255 ELSE n

as_u8(n) == n % 256
as_u16(n) == n % 65536

write_u8(n) == <<n>>
write_u16(n) == to_be_bytes(n, 2)
write_u64(n) == to_be_bytes(n, 8)
write_u128(t) == to_be_bytes(t.hi, 8) \o to_be_bytes(t.lo, 8)
write_hash(h) == h
write_bytes(bs) == bs

Reader(bytes) == [bytes |-> bytes, pos |-> 0]
Ok(v, rd) == [ok |-> TRUE, val |-> v, rd |-> rd]
Err(e) == [ok |-> FALSE, err |-> e]

\* every read fails with InvalidSize when fewer than n bytes remain
read_bytes(rd, n) ==
    IF rd.pos + n > Len(rd.bytes) THEN Err("InvalidSize")
    ELSE Ok(SubSeq(rd.bytes, rd.pos + 1, rd.pos + n), [rd EXCEPT !.pos = @ + n])

read_int(rd, n) ==
    LET r == read_bytes(rd, n)
    IN  IF r.ok THEN Ok(from_be_bytes(r.val), r.rd) ELSE r

read_u8(rd) == read_int(rd, 1)
read_u16(rd) == read_int(rd, 2)
read_u64(rd) == read_int(rd, 8)
read_u128(rd) ==
    LET r == read_bytes(rd, 16)
    IN  IF r.ok
        THEN Ok([hi |-> from_be_bytes(SubSeq(r.val, 1, 8)),
                 lo |-> from_be_bytes(SubSeq(r.val, 9, 16))], r.rd)
        ELSE r
read_hash(rd) == read_bytes(rd, HASH_SIZE)
read_bytes_32(rd) == read_bytes(rd, 32)

\* the hash with identifier i: 31 zero bytes and the byte i
HashOf(i) == [j \in 1..HASH_SIZE |-> IF j = HASH_SIZE THEN i ELSE 0]
ZeroHash == HashOf(0)

\* the concatenation of the byte strings ss, each width bytes long
Concat(ss, width) ==
    [i \in 1..(Len(ss) * width) |-> ss[((i - 1) \div width) + 1][((i - 1) % width) + 1]]

Range(s) == {s[i] : i \in 1..Len(s)}
NoDuplicates(s) == \A i, j \in 1..Len(s) : s[i] = s[j] => i = j
Min(a, b) == IF a <= b THEN a ELSE b

\* all sequences over S of length 0..n
RECURSIVE SeqsUpTo(_, _)
SeqsUpTo(S, n) ==
    IF n = 0 THEN {<<>>}
    ELSE LET shorter == SeqsUpTo(S, n - 1)
         IN  shorter \cup {Append(s, x) : s \in {t \in shorter : Len(t) = n - 1}, x \in S}

(***************************************************************************)
(* p2p/packet/chain.rs: BlockId, ChainRequest, CommonPoint, ChainResponse. *)
(***************************************************************************)
BlockId_new(hash, topoheight) == [hash |-> hash, topoheight |-> topoheight]

BlockId_write(id) == write_hash(id.hash) \o write_u64(id.topoheight)

\* a reader that takes the all-zero digest for a missing hash
BlockId_read_RejectZero(rd) ==
    LET h == read_hash(rd)
    IN  IF ~h.ok THEN h
        ELSE IF h.val = ZeroHash THEN Err("InvalidValue")
        ELSE LET t == read_u64(h.rd)
             IN  IF ~t.ok THEN t
                 ELSE Ok(BlockId_new(h.val, t.val), t.rd)

BlockId_read(rd) ==
    LET h == read_hash(rd)
    IN  IF ~h.ok THEN h
        ELSE LET t == read_u64(h.rd)
             IN  IF ~t.ok THEN t
                 ELSE Ok(BlockId_new(h.val, t.val), t.rd)

ChainRequest_new(blocks, accepted_response_size) ==
    [blocks |-> blocks, accepted_response_size |-> accepted_response_size]

ChainRequest_write(r) ==
    write_u8(as_u8(Len(r.blocks)))
        \o Concat([i \in 1..Len(r.blocks) |-> BlockId_write(r.blocks[i])], HASH_SIZE + 8)
        \o write_u16(r.accepted_response_size)

\* for _ in 0..len { blocks.push(BlockId::read(reader)?) }
RECURSIVE ReadBlockIds(_, _, _)
ReadBlockIds(rd, n, acc) ==
    IF n = 0 THEN Ok(acc, rd)
    ELSE LET b == BlockId_read(rd)
         IN  IF ~b.ok THEN b
             ELSE ReadBlockIds(b.rd, n - 1, Append(acc, b.val))

\* the request length check as a peer could have written it wrongly: no upper bound
ChainRequest_lenInvalid_NoCap(len) == len = 0

ChainRequest_lenInvalid(len) ==
    len = 0 \/ len > as_u8(CHAIN_SYNC_REQUEST_MAX_BLOCKS)

ChainRequest_sizeInvalid(size) ==
    \/ size < as_u16(CHAIN_SYNC_RESPONSE_MIN_BLOCKS)
    \/ size > as_u16(CHAIN_SYNC_RESPONSE_MAX_BLOCKS)

ChainRequest_read(rd) ==
    LET len == read_u8(rd)
    IN  IF ~len.ok THEN len
        ELSE IF ChainRequest_lenInvalid(len.val) THEN Err("InvalidValue")
        ELSE LET blocks == ReadBlockIds(len.rd, len.val, <<>>)
             IN  IF ~blocks.ok THEN blocks
                 ELSE LET size == read_u16(blocks.rd)
                      IN  IF ~size.ok THEN size
                          ELSE IF ChainRequest_sizeInvalid(size.val) THEN Err("InvalidValue")
                          ELSE Ok(ChainRequest_new(blocks.val, size.val), size.rd)

CommonPoint_new(hash, topoheight) == [hash |-> hash, topoheight |-> topoheight]

CommonPoint_write(c) == write_hash(c.hash) \o write_u64(c.topoheight)

CommonPoint_read(rd) ==
    LET h == read_hash(rd)
    IN  IF ~h.ok THEN h
        ELSE LET t == read_u64(h.rd)
             IN  IF ~t.ok THEN t
                 ELSE Ok(CommonPoint_new(h.val, t.val), t.rd)

\* Option<CommonPoint>: a presence byte, then the value when present
Option_write(o) ==
    IF o = None THEN write_u8(0) ELSE write_u8(1) \o CommonPoint_write(o[1])

Option_read(rd) ==
    LET flag == read_u8(rd)
    IN  IF ~flag.ok THEN flag
        ELSE IF flag.val = 0 THEN Ok(None, flag.rd)
        ELSE IF flag.val = 1
             THEN LET c == CommonPoint_read(flag.rd)
                  IN  IF ~c.ok THEN c ELSE Ok(Some(c.val), c.rd)
        ELSE Err("InvalidValue")

ChainResponse_new(common_point, blocks, top_blocks) ==
    [common_point |-> common_point, blocks |-> blocks, top_blocks |-> top_blocks]

\* the blocks count written on one byte, as the top_blocks count is
ChainResponse_write_ByteCount(r) ==
    Option_write(r.common_point)
        \o write_u8(as_u8(Len(r.blocks)))
        \o Concat([i \in 1..Len(r.blocks) |-> write_hash(r.blocks[i])], HASH_SIZE)
        \o write_u8(as_u8(Len(r.top_blocks)))
        \o Concat([i \in 1..Len(r.top_blocks) |-> write_hash(r.top_blocks[i])], HASH_SIZE)

ChainResponse_write(r) ==
    Option_write(r.common_point)
        \o write_u16(as_u16(Len(r.blocks)))
        \o Concat([i \in 1..Len(r.blocks) |-> write_hash(r.blocks[i])], HASH_SIZE)
        \o write_u8(as_u8(Len(r.top_blocks)))
        \o Concat([i \in 1..Len(r.top_blocks) |-> write_hash(r.top_blocks[i])], HASH_SIZE)

\* the loop without the cross check against the other set
RECURSIVE ReadHashSet_OwnSetOnly(_, _, _, _)
ReadHashSet_OwnSetOnly(rd, n, acc, taken) ==
    IF n = 0 THEN Ok(acc, rd)
    ELSE LET h == read_hash(rd)
         IN  IF ~h.ok THEN h
             ELSE IF h.val \in Range(acc) THEN Err("InvalidValue")
             ELSE ReadHashSet_OwnSetOnly(h.rd, n - 1, Append(acc, h.val), taken)

\* a reader that returns the hashes it has read when the bytes run out
RECURSIVE ReadHashSet_Partial(_, _, _, _)
ReadHashSet_Partial(rd, n, acc, taken) ==
    IF n = 0 THEN Ok(acc, rd)
    ELSE LET h == read_hash(rd)
         IN  IF ~h.ok THEN Ok(acc, rd)
             ELSE IF h.val \in taken \/ h.val \in Range(acc) THEN Err("InvalidValue")
             ELSE ReadHashSet_Partial(h.rd, n - 1, Append(acc, h.val), taken)

\* IndexSet::insert keeps insertion order and reports a hash already present;
\* `taken` are the hashes the loop also refuses (the blocks set, for top_blocks)
RECURSIVE ReadHashSet(_, _, _, _)
ReadHashSet(rd, n, acc, taken) ==
    IF n = 0 THEN Ok(acc, rd)
    ELSE LET h == read_hash(rd)
         IN  IF ~h.ok THEN h
             ELSE IF h.val \in taken \/ h.val \in Range(acc) THEN Err("InvalidValue")
             ELSE ReadHashSet(h.rd, n - 1, Append(acc, h.val), taken)

ChainResponse_read(rd) ==
    LET common_point == Option_read(rd)
    IN  IF ~common_point.ok THEN common_point
        ELSE LET len == read_u16(common_point.rd)
        IN  IF ~len.ok THEN len
        ELSE IF len.val > as_u16(CHAIN_SYNC_RESPONSE_MAX_BLOCKS) THEN Err("InvalidValue")
        ELSE LET blocks == ReadHashSet(len.rd, len.val, <<>>, {})
        IN  IF ~blocks.ok THEN blocks
        ELSE LET tlen == read_u8(blocks.rd)
        IN  IF ~tlen.ok THEN tlen
        ELSE IF tlen.val > as_u8(CHAIN_SYNC_TOP_BLOCKS * TIPS_LIMIT) THEN Err("InvalidValue")
        ELSE LET top_blocks == ReadHashSet(tlen.rd, tlen.val, <<>>, Range(blocks.val))
        IN  IF ~top_blocks.ok THEN top_blocks
        ELSE Ok(ChainResponse_new(common_point.val, blocks.val, top_blocks.val), top_blocks.rd)

\* a getter that returns the common point and leaves it in place
ChainResponse_get_common_point_Peek(r) == [returned |-> r.common_point, self |-> r]

\* Option::take: the value returned and the response left behind
ChainResponse_get_common_point(r) ==
    [returned |-> r.common_point, self |-> [r EXCEPT !.common_point = None]]

ChainResponse_consume(r) == <<r.blocks, r.top_blocks>>

(***************************************************************************)
(* The responder's negotiation.  Its code (the peer-session layer) is not  *)
(* part of these sources; it is modelled from the protocol description.    *)
(* A DAG snapshot is [order, tips]: order[t + 1] is the hash stored at     *)
(* topoheight t, tips the current tip set (an ordered set of hashes).      *)
(***************************************************************************)
HoldsAt(d, id) ==
    id.topoheight < Len(d.order) /\ d.order[id.topoheight + 1] = id.hash

\* the walk from the oldest checkpoint: the last one held
RECURSIVE find_common_point_OldestFirst(_, _)
find_common_point_OldestFirst(d, blocks) ==
    IF Len(blocks) = 0 THEN None
    ELSE IF HoldsAt(d, blocks[Len(blocks)])
         THEN Some(CommonPoint_new(blocks[Len(blocks)].hash, blocks[Len(blocks)].topoheight))
         ELSE find_common_point_OldestFirst(d, SubSeq(blocks, 1, Len(blocks) - 1))

\* walk the checkpoints in list order (most recent first): the first one held
RECURSIVE find_common_point(_, _)
find_common_point(d, blocks) ==
    IF Len(blocks) = 0 THEN None
    ELSE IF HoldsAt(d, Head(blocks))
         THEN Some(CommonPoint_new(Head(blocks).hash, Head(blocks).topoheight))
         ELSE find_common_point(d, Tail(blocks))

\* the hashes strictly after topoheight t, ascending, at most limit of them
BlocksAfter(d, t, limit) ==
    SubSeq(d.order, t + 2, Min(Len(d.order), t + 1 + limit))

RECURSIVE Without(_, _)
Without(s, taken) ==
    IF Len(s) = 0 THEN <<>>
    ELSE IF Head(s) \in taken THEN Without(Tail(s), taken)
         ELSE <<Head(s)>> \o Without(Tail(s), taken)

\* the tips sent whole, with no top-blocks limit
TopBlocks_Unbounded(d, blocks) == Without(d.tips, Range(blocks))

TopBlocks(d, blocks) ==
    LET free == Without(d.tips, Range(blocks))
    IN  SubSeq(free, 1, Min(Len(free), CHAIN_SYNC_TOP_BLOCKS * TIPS_LIMIT))

handle_chain_request(d, request) ==
    LET common_point == find_common_point(d, request.blocks)
        blocks == IF common_point = None THEN <<>>
                  ELSE BlocksAfter(d, common_point[1].topoheight,
                                   Min(request.accepted_response_size, d.cap))
    IN  ChainResponse_new(common_point, blocks, TopBlocks(d, blocks))

(***************************************************************************)
(* Inputs of the chain synchronisation session.                            *)
(***************************************************************************)
\* checkpoints a requester may list: any known or unknown hash, the all-zero
\* digest included, at topoheight 0 or 1
CheckpointIds == {BlockId_new(HashOf(h), t) : h \in 0..MaxHashId, t \in 0..1}

\* ChainRequest::new validates nothing: empty and oversized lists, any size
Requests ==
    {ChainRequest_new(b, sz) :
        b \in SeqsUpTo(CheckpointIds, CHAIN_SYNC_REQUEST_MAX_BLOCKS + 1),
        sz \in (CHAIN_SYNC_RESPONSE_MIN_BLOCKS - 1)..(CHAIN_SYNC_RESPONSE_MAX_BLOCKS + 1)}

\* the responder's chain 1, 2, ..., 6 cut at any height, its last 1 to 3 blocks
\* being the current tips, and the responder's own configured response cap
DagChain == [i \in 1..6 |-> HashOf(i)]
Dags ==
    {[order |-> SubSeq(DagChain, 1, p[1]),
      tips |-> [i \in 1..p[2] |-> DagChain[p[1] + 1 - i]],
      cap |-> p[3]] :
        p \in {q \in (1..Len(DagChain)) \X (1..3) \X
                      (CHAIN_SYNC_RESPONSE_MIN_BLOCKS..CHAIN_SYNC_RESPONSE_MAX_BLOCKS) :
                  q[2] <= q[1]}}

IndexSets(S, n) == {s \in SeqsUpTo(S, n) : NoDuplicates(s)}

\* ChainResponse::new validates nothing either: its IndexSets are duplicate-free,
\* but may overlap each other and exceed the decoder's caps
ForeignResponses ==
    {ChainResponse_new(c, b, t) :
        c \in {None, Some(CommonPoint_new(HashOf(1), 0))},
        b \in IndexSets({HashOf(i) : i \in 1..4}, CHAIN_SYNC_RESPONSE_MAX_BLOCKS + 1),
        t \in IndexSets({HashOf(i) : i \in 4..6}, CHAIN_SYNC_TOP_BLOCKS * TIPS_LIMIT + 1)}

\* bytes only a peer's own encoder can produce: counts that differ from the
\* number of hashes that follow, hashes repeated inside a set
RawResponse(flag, bcount, hashes, tcount, tops) ==
    write_u8(flag) \o write_u16(bcount) \o Concat(hashes, HASH_SIZE) \o write_u8(tcount) \o Concat(tops, HASH_SIZE)

ForgedResponses ==
    {RawResponse(0, c, b, tc, t) :
        c \in {0, 1, 2, CHAIN_SYNC_RESPONSE_MAX_BLOCKS + 1, 65535},
        b \in SeqsUpTo({HashOf(1), HashOf(2)}, 2),
        tc \in {0, 1, 2, CHAIN_SYNC_TOP_BLOCKS * TIPS_LIMIT + 1, 255},
        t \in SeqsUpTo({HashOf(2), HashOf(3)}, 2)}

\* how many trailing bytes a truncated message loses
Cuts == {1, 2, 10, 42}

(***************************************************************************)
(* The chain synchronisation session: the requester builds a ChainRequest, *)
(* writes it, the responder reads the bytes, builds its ChainResponse from *)
(* a DAG snapshot and writes it, the requester reads the bytes.  A message *)
(* may lose its tail in flight, and a peer may send a response of its own. *)
(***************************************************************************)
Truncated(bytes, cut) == SubSeq(bytes, 1, Len(bytes) - cut)

\* no get_common_point call yet, no block built, no JSON-RPC client
TakeIdle == held = None /\ got = <<>> /\ rewire = <<>>
BlockIdle ==
    /\ bpc = "idle"
    /\ block = None /\ blockWire = <<>> /\ blockRead = None
    /\ json = None /\ jsonRead = None
RpcIdle == count = 0 /\ tasks = <<>> /\ posted = EmptyBag

\* no message built yet; no header is in play during a sync session
SyncInit ==
    /\ pc = "start"
    /\ req = None /\ reqWire = <<>> /\ reqRead = None
    /\ dag = None
    /\ resp = None /\ respWire = <<>> /\ respRead = None
    /\ hpc = "idle"
    /\ header = None /\ prev = None /\ op = "none" /\ cachedWork = None
    /\ panicked = FALSE
    /\ wire = <<>> /\ decoded = None
    /\ TakeIdle /\ BlockIdle /\ RpcIdle

NewRequest ==
    /\ pc = "start"
    /\ \E r \in Requests : req' = Some(r)
    /\ pc' = "reqBuilt"
    /\ UNCHANGED <<reqWire, reqRead, dag, resp, respWire, respRead>>
    /\ UNCHANGED outsideRoundTrip

WriteRequest ==
    /\ pc = "reqBuilt"
    /\ reqWire' = ChainRequest_write(req[1])
    /\ pc' = "reqSent"
    /\ UNCHANGED <<req, reqRead, dag, resp, respWire, respRead>>
    /\ UNCHANGED outsideRoundTrip

TruncateRequest ==
    /\ pc = "reqSent"
    /\ \E cut \in Cuts :
          /\ cut <= Len(reqWire)
          /\ reqWire' = Truncated(reqWire, cut)
    /\ pc' = "reqCut"
    /\ UNCHANGED <<req, reqRead, dag, resp, respWire, respRead>>
    /\ UNCHANGED outsideRoundTrip

ReadRequest ==
    /\ pc \in {"reqSent", "reqCut"}
    /\ reqRead' = Some(ChainRequest_read(Reader(reqWire)))
    /\ pc' = "reqRead"
    /\ UNCHANGED <<req, reqWire, dag, resp, respWire, respRead>>
    /\ UNCHANGED outsideRoundTrip

Respond ==
    /\ pc = "reqRead"
    /\ reqRead[1].ok
    /\ \E d \in Dags :
          /\ dag' = Some(d)
          /\ resp' = Some(handle_chain_request(d, reqRead[1].val))
    /\ pc' = "respBuilt"
    /\ UNCHANGED <<req, reqWire, reqRead, respWire, respRead>>
    /\ UNCHANGED outsideRoundTrip

ForeignResponse ==
    /\ pc = "start"
    /\ \E r \in ForeignResponses : resp' = Some(r)
    /\ pc' = "respBuilt"
    /\ UNCHANGED <<req, reqWire, reqRead, dag, respWire, respRead>>
    /\ UNCHANGED outsideRoundTrip

WriteResponse ==
    /\ pc = "respBuilt"
    /\ respWire' = ChainResponse_write(resp[1])
    /\ pc' = "respSent"
    /\ UNCHANGED <<req, reqWire, reqRead, dag, resp, respRead>>
    /\ UNCHANGED outsideRoundTrip

TruncateResponse ==
    /\ pc = "respSent"
    /\ \E cut \in Cuts :
          /\ cut <= Len(respWire)
          /\ respWire' = Truncated(respWire, cut)
    /\ pc' = "respCut"
    /\ UNCHANGED <<req, reqWire, reqRead, dag, resp, respRead>>
    /\ UNCHANGED outsideRoundTrip

ForgeResponse ==
    /\ pc = "start"
    /\ \E bytes \in ForgedResponses : respWire' = bytes
    /\ pc' = "respCut"
    /\ UNCHANGED <<req, reqWire, reqRead, dag, resp, respRead>>
    /\ UNCHANGED outsideRoundTrip

ReadResponse ==
    /\ pc \in {"respSent", "respCut"}
    /\ respRead' = Some(ChainResponse_read(Reader(respWire)))
    /\ pc' = "respRead"
    /\ UNCHANGED <<req, reqWire, reqRead, dag, resp, respWire>>
    /\ UNCHANGED outsideRoundTrip

\* how many times in a row the requester calls get_common_point
MaxGets == 2

\* the requester calls get_common_point(&mut self) on the response it decoded
GetCommonPoint ==
    /\ pc \in {"respRead", "taken"}
    /\ respRead[1].ok
    /\ Len(got) < MaxGets
    /\ LET self == IF held = None THEN respRead[1].val ELSE held[1]
           r == ChainResponse_get_common_point(self)
       IN  /\ held' = Some(r.self)
           /\ got' = Append(got, r.returned)
    /\ pc' = "taken"
    /\ UNCHANGED rewire
    /\ UNCHANGED <<req, reqWire, reqRead, dag, resp, respWire, respRead>>
    /\ UNCHANGED <<headerVars, blockVars, rpcVars>>

\* the response is written after the calls
WriteTaken ==
    /\ pc = "taken"
    /\ rewire' = ChainResponse_write(held[1])
    /\ pc' = "rewritten"
    /\ UNCHANGED <<held, got>>
    /\ UNCHANGED <<req, reqWire, reqRead, dag, resp, respWire, respRead>>
    /\ UNCHANGED <<headerVars, blockVars, rpcVars>>

SyncNext ==
    \/ NewRequest \/ WriteRequest \/ TruncateRequest \/ ReadRequest
    \/ Respond \/ ForeignResponse \/ WriteResponse \/ TruncateResponse
    \/ ForgeResponse \/ ReadResponse
    \/ GetCommonPoint \/ WriteTaken

SpecSync == SyncInit /\ [][SyncNext]_vars

(***************************************************************************)
(* The wire layouts, read off the bytes without any validation: what a    *)
(* message states, whatever the decoder makes of it.                       *)
(***************************************************************************)
IsInvalidValue(r) == ~r.ok /\ r.err = "InvalidValue"
BLOCK_ID_SIZE == HASH_SIZE + 8

\* ChainRequest: block_count(1) BlockId x block_count accepted_response_size(2)
ReqCount(w) == w[1]
ReqHasSize(w) == Len(w) >= 1 /\ Len(w) >= 1 + BLOCK_ID_SIZE * ReqCount(w) + 2
ReqSize(w) ==
    from_be_bytes(SubSeq(w, 2 + BLOCK_ID_SIZE * ReqCount(w), 3 + BLOCK_ID_SIZE * ReqCount(w)))

\* ChainResponse: has_common_point(1) [CommonPoint] block_count(2) hash x block_count
\*                top_count(1) hash x top_count
RespOff(w) == IF w[1] = 1 THEN 1 + BLOCK_ID_SIZE ELSE 1
RespHasCount(w) == Len(w) >= 1 /\ w[1] \in {0, 1} /\ Len(w) >= RespOff(w) + 2
RespCount(w) == from_be_bytes(SubSeq(w, RespOff(w) + 1, RespOff(w) + 2))
RespHasBlocks(w) ==
    RespHasCount(w) /\ Len(w) >= RespOff(w) + 2 + HASH_SIZE * RespCount(w)
RespBlocks(w) ==
    [i \in 1..RespCount(w) |->
        SubSeq(w, RespOff(w) + 2 + HASH_SIZE * (i - 1) + 1, RespOff(w) + 2 + HASH_SIZE * i)]
RespTopOff(w) == RespOff(w) + 2 + HASH_SIZE * RespCount(w)
RespHasTopCount(w) == RespHasBlocks(w) /\ Len(w) >= RespTopOff(w) + 1
RespTopCount(w) == w[RespTopOff(w) + 1]
RespHasTops(w) ==
    RespHasTopCount(w) /\ Len(w) >= RespTopOff(w) + 1 + HASH_SIZE * RespTopCount(w)
RespTops(w) ==
    [i \in 1..RespTopCount(w) |->
        SubSeq(w, RespTopOff(w) + 1 + HASH_SIZE * (i - 1) + 1,
                  RespTopOff(w) + 1 + HASH_SIZE * i)]

TopBlocksCap == CHAIN_SYNC_TOP_BLOCKS * TIPS_LIMIT

(***************************************************************************)
(* C1.  ChainRequest::read rejects out-of-range requests, it never clamps: *)
(* bytes whose checkpoint count is 0 or above CHAIN_SYNC_REQUEST_MAX_BLOCKS *)
(* decode to InvalidValue, and so do bytes whose accepted_response_size is *)
(* outside [RESPONSE_MIN, RESPONSE_MAX]; every request that decodes has    *)
(* 1..REQUEST_MAX checkpoints and a response size inside the bounds.       *)
(***************************************************************************)
C1_RequestOutOfRangeRejected ==
    reqRead # None =>
        LET r == reqRead[1]
            w == reqWire
        IN  /\ (Len(w) >= 1 /\ ReqCount(w) = 0) => IsInvalidValue(r)
            /\ (Len(w) >= 1 /\ ReqCount(w) > CHAIN_SYNC_REQUEST_MAX_BLOCKS) => IsInvalidValue(r)
            /\ ( /\ ReqHasSize(w)
                 /\ ReqCount(w) \in 1..CHAIN_SYNC_REQUEST_MAX_BLOCKS
                 /\ \/ ReqSize(w) < CHAIN_SYNC_RESPONSE_MIN_BLOCKS
                    \/ ReqSize(w) > CHAIN_SYNC_RESPONSE_MAX_BLOCKS ) => IsInvalidValue(r)
            /\ r.ok =>
                  /\ Len(r.val.blocks) \in 1..CHAIN_SYNC_REQUEST_MAX_BLOCKS
                  /\ r.val.accepted_response_size \in
                        CHAIN_SYNC_RESPONSE_MIN_BLOCKS..CHAIN_SYNC_RESPONSE_MAX_BLOCKS

\* a request with the maximum number of checkpoints and a response size one
\* above the maximum has been read, and was rejected
C1_Witness ==
    /\ reqRead # None
    /\ ReqHasSize(reqWire)
    /\ ReqCount(reqWire) = CHAIN_SYNC_REQUEST_MAX_BLOCKS
    /\ ReqSize(reqWire) = CHAIN_SYNC_RESPONSE_MAX_BLOCKS + 1
    /\ IsInvalidValue(reqRead[1])

(***************************************************************************)
(* C2.  ChainResponse::read rejects oversized or duplicated hash sets:     *)
(* InvalidValue when the blocks count exceeds the response maximum, when a *)
(* hash repeats inside blocks, when the top_blocks count exceeds           *)
(* CHAIN_SYNC_TOP_BLOCKS * TIPS_LIMIT, when a hash repeats inside          *)
(* top_blocks or is already in blocks; every response that decodes has     *)
(* both sets duplicate-free, disjoint and within their caps.               *)
(***************************************************************************)
C2_ResponseSetsValidated ==
    respRead # None =>
        LET r == respRead[1]
            w == respWire
        IN  /\ (RespHasCount(w) /\ RespCount(w) > CHAIN_SYNC_RESPONSE_MAX_BLOCKS)
                  => IsInvalidValue(r)
            /\ ( /\ RespHasBlocks(w)
                 /\ RespCount(w) <= CHAIN_SYNC_RESPONSE_MAX_BLOCKS
                 /\ ~NoDuplicates(RespBlocks(w)) ) => IsInvalidValue(r)
            /\ ( /\ RespHasTopCount(w)
                 /\ RespCount(w) <= CHAIN_SYNC_RESPONSE_MAX_BLOCKS
                 /\ NoDuplicates(RespBlocks(w))
                 /\ RespTopCount(w) > TopBlocksCap ) => IsInvalidValue(r)
            /\ ( /\ RespHasTops(w)
                 /\ RespCount(w) <= CHAIN_SYNC_RESPONSE_MAX_BLOCKS
                 /\ NoDuplicates(RespBlocks(w))
                 /\ RespTopCount(w) <= TopBlocksCap
                 /\ \/ ~NoDuplicates(RespTops(w))
                    \/ Range(RespTops(w)) \cap Range(RespBlocks(w)) # {} ) => IsInvalidValue(r)
            /\ r.ok =>
                  /\ NoDuplicates(r.val.blocks)
                  /\ NoDuplicates(r.val.top_blocks)
                  /\ Range(r.val.blocks) \cap Range(r.val.top_blocks) = {}
                  /\ Len(r.val.blocks) <= CHAIN_SYNC_RESPONSE_MAX_BLOCKS
                  /\ Len(r.val.top_blocks) <= TopBlocksCap

\* bytes within both caps, each set duplicate-free, but with a top block that
\* is also in blocks, have been read and rejected
C2_Witness ==
    /\ respRead # None
    /\ RespHasTops(respWire)
    /\ RespCount(respWire) \in 1..CHAIN_SYNC_RESPONSE_MAX_BLOCKS
    /\ RespTopCount(respWire) \in 1..TopBlocksCap
    /\ NoDuplicates(RespBlocks(respWire))
    /\ NoDuplicates(RespTops(respWire))
    /\ Range(RespTops(respWire)) \cap Range(RespBlocks(respWire)) # {}
    /\ IsInvalidValue(respRead[1])

(***************************************************************************)
(* C4.  Chain-sync round trip: a ChainRequest with 1..REQUEST_MAX          *)
(* checkpoints and a response size inside the bounds, each of its          *)
(* BlockIds, a ChainResponse within its caps whose two sets are disjoint   *)
(* and its CommonPoint (present or absent) are read back from the bytes    *)
(* written for them equal to the original, element order kept, with every  *)
(* written byte consumed.                                                  *)
(***************************************************************************)
ValidRequest(r) ==
    /\ Len(r.blocks) \in 1..CHAIN_SYNC_REQUEST_MAX_BLOCKS
    /\ r.accepted_response_size \in
          CHAIN_SYNC_RESPONSE_MIN_BLOCKS..CHAIN_SYNC_RESPONSE_MAX_BLOCKS

ValidResponse(r) ==
    /\ Len(r.blocks) <= CHAIN_SYNC_RESPONSE_MAX_BLOCKS
    /\ Len(r.top_blocks) <= TopBlocksCap
    /\ Range(r.blocks) \cap Range(r.top_blocks) = {}

ReadsBack(result, value, bytes) ==
    result.ok /\ result.val = value /\ result.rd.pos = Len(bytes)

C4_SyncRoundTrip ==
    /\ ( /\ reqRead # None
         /\ reqWire = ChainRequest_write(req[1])
         /\ ValidRequest(req[1]) ) =>
            /\ ReadsBack(reqRead[1], req[1], reqWire)
            /\ \A i \in 1..Len(req[1].blocks) :
                  LET id == req[1].blocks[i]
                  IN  ReadsBack(BlockId_read(Reader(BlockId_write(id))), id, BlockId_write(id))
    /\ ( /\ respRead # None
         /\ resp # None
         /\ respWire = ChainResponse_write(resp[1])
         /\ ValidResponse(resp[1]) ) =>
            /\ ReadsBack(respRead[1], resp[1], respWire)
            /\ resp[1].common_point # None =>
                  LET c == resp[1].common_point[1]
                  IN  ReadsBack(CommonPoint_read(Reader(CommonPoint_write(c))), c,
                                CommonPoint_write(c))

\* a response with a common point and both sets at their maximum lengths has
\* been written and read back, after a request with the maximum number of
\* checkpoints was
C4_Witness ==
    /\ respRead # None /\ resp # None /\ reqRead # None
    /\ Len(req[1].blocks) = CHAIN_SYNC_REQUEST_MAX_BLOCKS
    /\ reqRead[1].ok
    /\ respWire = ChainResponse_write(resp[1])
    /\ resp[1].common_point # None
    /\ Len(resp[1].blocks) = CHAIN_SYNC_RESPONSE_MAX_BLOCKS
    /\ Len(resp[1].top_blocks) = TopBlocksCap
    /\ respRead[1].ok

(***************************************************************************)
(* C8.  Negotiation result: the response the responder builds from its DAG *)
(* snapshot has as common point the first checkpoint, in the request's     *)
(* order (most recent first), whose hash the responder holds at exactly    *)
(* the stated topoheight; blocks are exactly the responder's hashes        *)
(* strictly after that point, ascending, cut to min(accepted_response_size,*)
(* the responder's cap); top_blocks are current tips not in blocks, at     *)
(* most the top-blocks limit of them.                                      *)
(***************************************************************************)
Matching(d, blocks) == {i \in 1..Len(blocks) : HoldsAt(d, blocks[i])}
FirstMatching(d, blocks) ==
    CHOOSE i \in Matching(d, blocks) : \A j \in Matching(d, blocks) : i <= j

C8_NegotiationResult ==
    (dag # None /\ resp # None) =>
        LET d == dag[1]
            request == reqRead[1].val
            r == resp[1]
            limit == Min(request.accepted_response_size, d.cap)
        IN  /\ Matching(d, request.blocks) = {} => r.common_point = None
            /\ Matching(d, request.blocks) # {} =>
                  LET id == request.blocks[FirstMatching(d, request.blocks)]
                      t == id.topoheight
                  IN  /\ r.common_point = Some(CommonPoint_new(id.hash, t))
                      /\ Len(r.blocks) = Min(limit, Len(d.order) - (t + 1))
                      /\ \A i \in 1..Len(r.blocks) : r.blocks[i] = d.order[t + 1 + i]
            /\ Range(r.top_blocks) \subseteq Range(d.tips) \ Range(r.blocks)
            /\ NoDuplicates(r.top_blocks)
            /\ Len(r.top_blocks) <= TopBlocksCap

\* the scenario: the request lists a checkpoint the responder does not hold,
\* then an older one it holds; the older one is the common point and more
\* blocks follow it than the negotiated cap lets through
C8_Witness ==
    /\ dag # None /\ resp # None
    /\ Len(reqRead[1].val.blocks) = 2
    /\ ~HoldsAt(dag[1], reqRead[1].val.blocks[1])
    /\ HoldsAt(dag[1], reqRead[1].val.blocks[2])
    /\ resp[1].common_point =
          Some(CommonPoint_new(reqRead[1].val.blocks[2].hash, reqRead[1].val.blocks[2].topoheight))
    /\ Len(resp[1].blocks) = Min(reqRead[1].val.accepted_response_size, dag[1].cap)
    /\ Len(resp[1].blocks) < Len(dag[1].order) - (reqRead[1].val.blocks[2].topoheight + 1)

(***************************************************************************)
(* C9.  Negotiation with no overlap.  As claimed: when no checkpoint of    *)
(* the request matches a hash the responder stores at the stated height,   *)
(* the response has no common point and a non-empty top_blocks set equal   *)
(* to the responder's current tip set, disjoint from blocks.               *)
(***************************************************************************)
NoOverlap ==
    dag # None /\ resp # None /\ Matching(dag[1], reqRead[1].val.blocks) = {}

C9_NoOverlapTipsEqual ==
    NoOverlap =>
        /\ resp[1].common_point = None
        /\ resp[1].top_blocks # <<>>
        /\ Range(resp[1].top_blocks) = Range(dag[1].tips)
        /\ Range(resp[1].blocks) \cap Range(resp[1].top_blocks) = {}

(***************************************************************************)
(* C9, amended.  With no overlap the response has no common point and a    *)
(* non-empty top_blocks set of current tips, disjoint from blocks: the     *)
(* whole tip set when it has at most CHAIN_SYNC_TOP_BLOCKS * TIPS_LIMIT    *)
(* hashes, and that many of the tips otherwise.                            *)
(***************************************************************************)
C9_NoOverlapTipsBounded ==
    NoOverlap =>
        /\ resp[1].common_point = None
        /\ resp[1].top_blocks # <<>>
        /\ Range(resp[1].top_blocks) \subseteq Range(dag[1].tips)
        /\ Len(resp[1].top_blocks) = Min(Len(dag[1].tips), TopBlocksCap)
        /\ NoDuplicates(resp[1].top_blocks)
        /\ Len(dag[1].tips) <= TopBlocksCap =>
              Range(resp[1].top_blocks) = Range(dag[1].tips)
        /\ Range(resp[1].blocks) \cap Range(resp[1].top_blocks) = {}

\* no checkpoint matched and the responder has more tips than the limit
C9_Witness ==
    /\ NoOverlap
    /\ Len(dag[1].tips) > TopBlocksCap
    /\ Len(resp[1].top_blocks) = TopBlocksCap

(***************************************************************************)
(* C10.  As claimed: an empty checkpoint list, a checkpoint with an        *)
(* all-zero digest and a checkpoint whose topoheight the responder never   *)
(* reached are ordinary inputs: the request decodes, and the negotiation   *)
(* goes on with the entry not matching.                                    *)
(***************************************************************************)
Intact == reqRead # None /\ reqWire = ChainRequest_write(req[1])

SizeInBounds(r) ==
    r.accepted_response_size \in
        CHAIN_SYNC_RESPONSE_MIN_BLOCKS..CHAIN_SYNC_RESPONSE_MAX_BLOCKS

Unmatchable(d, id) == id.hash = ZeroHash \/ id.topoheight >= Len(d.order)

UnmatchableNotMatched ==
    (dag # None /\ resp # None /\ resp[1].common_point # None) =>
        ~Unmatchable(dag[1], resp[1].common_point[1])

C10_EdgeInputsDecode ==
    /\ ( /\ Intact
         /\ Len(req[1].blocks) <= CHAIN_SYNC_REQUEST_MAX_BLOCKS
         /\ SizeInBounds(req[1]) ) => reqRead[1].ok
    /\ UnmatchableNotMatched

(***************************************************************************)
(* C10, amended.  A checkpoint with an all-zero digest and a checkpoint    *)
(* whose topoheight the responder never reached are ordinary inputs: a     *)
(* request of 1..REQUEST_MAX checkpoints holding them decodes, and the     *)
(* negotiation goes on with the entry not matching.  An empty checkpoint   *)
(* list is not: it fails to decode with InvalidValue.                      *)
(***************************************************************************)
C10_EdgeInputsDecodeNonEmpty ==
    /\ ( /\ Intact
         /\ Len(req[1].blocks) \in 1..CHAIN_SYNC_REQUEST_MAX_BLOCKS
         /\ SizeInBounds(req[1]) ) => reqRead[1].ok /\ reqRead[1].val = req[1]
    /\ (Intact /\ Len(req[1].blocks) = 0) => IsInvalidValue(reqRead[1])
    /\ UnmatchableNotMatched

\* a request listing an all-zero digest and a checkpoint above the
\* responder's height was decoded and answered, with no common point
C10_Witness ==
    /\ dag # None /\ resp # None
    /\ \E i \in 1..Len(reqRead[1].val.blocks) : reqRead[1].val.blocks[i].hash = ZeroHash
    /\ \E i \in 1..Len(reqRead[1].val.blocks) :
          /\ reqRead[1].val.blocks[i].hash # ZeroHash
          /\ reqRead[1].val.blocks[i].topoheight >= Len(dag[1].order)
    /\ resp[1].common_point = None

(***************************************************************************)
(* crypto: the digest and the public key.  The digest is collision-free:   *)
(* its HASH_SIZE bytes are symbols, the first of which carries the input.  *)
(* A public key is a curve point, here its identifier; as_bytes gives its  *)
(* compressed encoding, from_bytes finds the point of an encoding and      *)
(* fails on bytes that encode no point.                                    *)
(***************************************************************************)
hash(bytes) == [i \in 1..HASH_SIZE |-> IF i = 1 THEN <<"digest", i, bytes>> ELSE <<"digest", i>>]

KeyIds == 1..2
PublicKey_as_bytes(key) == [j \in 1..KEY_LENGTH |-> IF j = 1 THEN key ELSE 0]

PublicKey_from_bytes(bytes) ==
    IF \E k \in KeyIds : PublicKey_as_bytes(k) = bytes
    THEN [ok |-> TRUE, val |-> CHOOSE k \in KeyIds : PublicKey_as_bytes(k) = bytes]
    ELSE [ok |-> FALSE]

PublicKey_write(key) == write_bytes(PublicKey_as_bytes(key))

PublicKey_read(rd) ==
    LET b == read_bytes_32(rd)
    IN  IF ~b.ok THEN b
        ELSE LET v == PublicKey_from_bytes(b.val)
             IN  IF v.ok THEN Ok(v.val, b.rd) ELSE Err("ErrorTryInto")

(***************************************************************************)
(* block/mod.rs: BlockHeader.                                              *)
(***************************************************************************)
BlockHeader_new(version, height, timestamp, tips, extra_nonce, miner, txs_hashes) ==
    [version |-> version, height |-> height, timestamp |-> timestamp, tips |-> tips,
     nonce |-> 0, extra_nonce |-> extra_nonce, miner |-> miner, txs_hashes |-> txs_hashes]

set_miner(h, key) == [h EXCEPT !.miner = key]
set_extra_nonce(h, values) == [h EXCEPT !.extra_nonce = values]

\* the tip hashes put into the buffer as they are, not digested
get_tips_hash_Raw(h) == Concat(h.tips, HASH_SIZE)

get_tips_hash(h) == hash(Concat(h.tips, HASH_SIZE))
get_txs_hash(h) == hash(Concat(h.txs_hashes, HASH_SIZE))

\* the work buffer with the nonce appended to it
get_work_WithNonce(h) ==
    <<h.version>> \o to_be_bytes(h.height, 8) \o get_tips_hash(h) \o get_txs_hash(h)
        \o to_be_bytes(h.nonce, 8)

get_work(h) ==
    <<h.version>> \o to_be_bytes(h.height, 8) \o get_tips_hash(h) \o get_txs_hash(h)

get_work_hash(h) == hash(get_work(h))

u128_to_be_bytes(t) == to_be_bytes(t.hi, 8) \o to_be_bytes(t.lo, 8)

\* the timestamp cut to its low 64 bits, as the JSON form of the header does
get_serialized_header_Timestamp64(h) ==
    get_work_hash(h) \o to_be_bytes(h.timestamp.lo, 8) \o to_be_bytes(h.nonce, 8)
        \o h.extra_nonce \o PublicKey_as_bytes(h.miner)

get_serialized_header(h) ==
    get_work_hash(h) \o u128_to_be_bytes(h.timestamp) \o to_be_bytes(h.nonce, 8)
        \o h.extra_nonce \o PublicKey_as_bytes(h.miner)

get_pow_hash(h) == hash(get_serialized_header(h))

\* impl Hashable for BlockHeader
BlockHeader_hash(h) == hash(get_serialized_header(h))

\* the transaction hashes written before the tips
BlockHeader_write_TxsFirst(h) ==
    write_u8(h.version) \o write_u64(h.height) \o write_u128(h.timestamp)
        \o write_u64(h.nonce) \o write_bytes(h.extra_nonce)
        \o write_u16(as_u16(Len(h.txs_hashes))) \o Concat(h.txs_hashes, HASH_SIZE)
        \o write_u8(as_u8(Len(h.tips))) \o Concat(h.tips, HASH_SIZE)
        \o PublicKey_write(h.miner)

\* the timestamp written with its high 64 bits cleared
BlockHeader_write_TimestampLow64(h) ==
    write_u8(h.version) \o write_u64(h.height)
        \o write_u128([hi |-> 0, lo |-> h.timestamp.lo])
        \o write_u64(h.nonce) \o write_bytes(h.extra_nonce)
        \o write_u8(as_u8(Len(h.tips))) \o Concat(h.tips, HASH_SIZE)
        \o write_u16(as_u16(Len(h.txs_hashes))) \o Concat(h.txs_hashes, HASH_SIZE)
        \o PublicKey_write(h.miner)

BlockHeader_write(h) ==
    write_u8(h.version) \o write_u64(h.height) \o write_u128(h.timestamp)
        \o write_u64(h.nonce) \o write_bytes(h.extra_nonce)
        \o write_u8(as_u8(Len(h.tips))) \o Concat(h.tips, HASH_SIZE)
        \o write_u16(as_u16(Len(h.txs_hashes))) \o Concat(h.txs_hashes, HASH_SIZE)
        \o PublicKey_write(h.miner)

\* a reader that holds the count of a list to the protocol tip limit
ReadHashes_Limited(rd, n) ==
    IF n > TIPS_LIMIT THEN Err("InvalidValue")
    ELSE IF rd.pos + n * HASH_SIZE > Len(rd.bytes) THEN Err("InvalidSize")
    ELSE Ok([i \in 1..n |-> SubSeq(rd.bytes, rd.pos + (i - 1) * HASH_SIZE + 1,
                                    rd.pos + i * HASH_SIZE)],
            [rd EXCEPT !.pos = @ + n * HASH_SIZE])

\* for _ in 0..count { v.push(reader.read_hash()?) }: the n hashes that follow,
\* or the error of the first read_hash that finds too few bytes
ReadHashes(rd, n) ==
    IF rd.pos + n * HASH_SIZE > Len(rd.bytes) THEN Err("InvalidSize")
    ELSE Ok([i \in 1..n |-> SubSeq(rd.bytes, rd.pos + (i - 1) * HASH_SIZE + 1,
                                    rd.pos + i * HASH_SIZE)],
            [rd EXCEPT !.pos = @ + n * HASH_SIZE])

BlockHeader_read(rd) ==
    LET version == read_u8(rd)
    IN  IF ~version.ok THEN version
        ELSE LET height == read_u64(version.rd)
        IN  IF ~height.ok THEN height
        ELSE LET timestamp == read_u128(height.rd)
        IN  IF ~timestamp.ok THEN timestamp
        ELSE LET nonce == read_u64(timestamp.rd)
        IN  IF ~nonce.ok THEN nonce
        ELSE LET extra_nonce == read_bytes_32(nonce.rd)
        IN  IF ~extra_nonce.ok THEN extra_nonce
        ELSE LET tips_count == read_u8(extra_nonce.rd)
        IN  IF ~tips_count.ok THEN tips_count
        ELSE LET tips == ReadHashes(tips_count.rd, tips_count.val)
        IN  IF ~tips.ok THEN tips
        ELSE LET txs_count == read_u16(tips.rd)
        IN  IF ~txs_count.ok THEN txs_count
        ELSE LET txs_hashes == ReadHashes(txs_count.rd, txs_count.val)
        IN  IF ~txs_hashes.ok THEN txs_hashes
        ELSE LET miner == PublicKey_read(txs_hashes.rd)
        IN  IF ~miner.ok THEN miner
        ELSE Ok([version |-> version.val, extra_nonce |-> extra_nonce.val,
                 height |-> height.val, timestamp |-> timestamp.val, tips |-> tips.val,
                 miner |-> miner.val, nonce |-> nonce.val, txs_hashes |-> txs_hashes.val],
                miner.rd)

\* the two size checks that end in panic!
get_work_panics(h) == Len(get_work(h)) # HEADER_WORK_SIZE
get_serialized_header_panics(h) == Len(get_serialized_header(h)) # BLOCK_WORK_SIZE

(***************************************************************************)
(* Inputs of the header's life cycle.                                      *)
(***************************************************************************)
\* <<version, height>> of the headers built
VersionsHeights == {<<0, 0>>, <<1, 300>>}
Nonces == {0, 70000}
\* a timestamp below 2^64 and one above it
Timestamps == {[hi |-> 0, lo |-> 1700000000], [hi |-> 1, lo |-> 1700000000]}
ExtraNonces == {[j \in 1..EXTRA_NONCE_SIZE |-> e] : e \in {0, 9}}
HeaderHashes == {HashOf(1), HashOf(2)}

\* tips and txs_hashes of at most MaxList hashes together
TipsAndTxs ==
    {p \in SeqsUpTo(HeaderHashes, MaxList) \X SeqsUpTo(HeaderHashes, MaxList) :
        Len(p[1]) + Len(p[2]) <= MaxList}

\* the most tips the one-byte tip count can state
ManyTips == [i \in 1..255 |-> HashOf(i)]

FirstOf(S) == CHOOSE x \in S : TRUE

NewHeaders ==
    {BlockHeader_new(vh[1], vh[2], FirstOf(Timestamps), p[1], FirstOf(ExtraNonces),
                     FirstOf(KeyIds), p[2]) :
        vh \in VersionsHeights, p \in TipsAndTxs}
    \cup {BlockHeader_new(1, 300, FirstOf(Timestamps), ManyTips, FirstOf(ExtraNonces),
                          FirstOf(KeyIds), <<>>)}

\* what a mining worker caches of a header
Cached(h) == [work |-> get_work(h), work_hash |-> get_work_hash(h)]
Panics(h) == get_work_panics(h) \/ get_serialized_header_panics(h)

(***************************************************************************)
(* The header's life cycle: built with a zero nonce, possibly rebuilt with *)
(* other tips and transactions, mined (the miner varies nonce, timestamp,  *)
(* extra_nonce and miner and hashes the header after each change), then    *)
(* frozen, written and read back.                                          *)
(***************************************************************************)
\* a header built by BlockHeader::new; no sync session is in play
HeaderInit ==
    /\ pc = "start"
    /\ req = None /\ reqWire = <<>> /\ reqRead = None
    /\ dag = None
    /\ resp = None /\ respWire = <<>> /\ respRead = None
    /\ hpc = "mining"
    /\ \E h \in NewHeaders :
          /\ header = Some(h) /\ prev = Some(h)
          /\ cachedWork = Some(Cached(h))
          /\ panicked = Panics(h)
    /\ op = "new"
    /\ wire = <<>> /\ decoded = None
    /\ TakeIdle /\ BlockIdle /\ RpcIdle

\* the operation's result h becomes the header, and is hashed
Mined(h, name) ==
    /\ hpc = "mining"
    /\ h # header[1]
    /\ prev' = header
    /\ header' = Some(h)
    /\ op' = name
    /\ panicked' = (panicked \/ Panics(h))
    /\ UNCHANGED <<hpc, cachedWork, wire, decoded>>
    /\ UNCHANGED outsideHeader

Rebuild ==
    /\ hpc = "mining" /\ op = "new"
    /\ \E p \in TipsAndTxs :
          LET h == BlockHeader_new(header[1].version, header[1].height, header[1].timestamp,
                                   p[1], header[1].extra_nonce, header[1].miner, p[2])
          IN  /\ h # header[1]
              /\ prev' = header
              /\ header' = Some(h)
              /\ cachedWork' = Some(Cached(h))
              /\ panicked' = (panicked \/ Panics(h))
    /\ op' = "rebuild"
    /\ UNCHANGED <<hpc, wire, decoded>>
    /\ UNCHANGED outsideHeader

SetMiner == \E k \in KeyIds : Mined(set_miner(header[1], k), "set_miner")

SetExtraNonce == \E e \in ExtraNonces : Mined(set_extra_nonce(header[1], e), "set_extra_nonce")

SetNonce == \E n \in Nonces : Mined([header[1] EXCEPT !.nonce = n], "nonce")

SetTimestamp == \E t \in Timestamps : Mined([header[1] EXCEPT !.timestamp = t], "timestamp")

WriteHeader ==
    /\ hpc = "mining"
    /\ wire' = BlockHeader_write(header[1])
    /\ hpc' = "written"
    /\ UNCHANGED <<header, prev, op, cachedWork, panicked, decoded>>
    /\ UNCHANGED outsideHeader

ReadHeader ==
    /\ hpc \in {"written", "cut"}
    /\ decoded' = Some(BlockHeader_read(Reader(wire)))
    /\ hpc' = IF hpc = "written" THEN "read" ELSE "readCut"
    /\ UNCHANGED <<header, prev, op, cachedWork, panicked, wire>>
    /\ UNCHANGED outsideHeader

HeaderNext ==
    \/ Rebuild \/ SetMiner \/ SetExtraNonce \/ SetNonce \/ SetTimestamp
    \/ WriteHeader \/ ReadHeader

SpecHeader == HeaderInit /\ [][HeaderNext]_vars

(***************************************************************************)
(* C3.  BlockHeader round trip: BlockHeader::read applied to the bytes     *)
(* BlockHeader::write produced for a header (0 to 255 tips, any version,   *)
(* height, nonce, extra_nonce, any u128 timestamp, a valid miner key)      *)
(* returns a header equal to the original in every field, tips and         *)
(* txs_hashes in the same order, and consumes exactly the bytes written.   *)
(***************************************************************************)
C3_HeaderRoundTrip ==
    hpc = "read" =>
        LET h == header[1]
            r == decoded[1]
        IN  /\ r.ok
            /\ r.val.version = h.version
            /\ r.val.height = h.height
            /\ r.val.timestamp = h.timestamp
            /\ r.val.nonce = h.nonce
            /\ r.val.extra_nonce = h.extra_nonce
            /\ r.val.tips = h.tips
            /\ r.val.txs_hashes = h.txs_hashes
            /\ r.val.miner = h.miner
            /\ r.rd.pos = Len(wire)
            /\ Len(wire) = 100 + HASH_SIZE * (Len(h.tips) + Len(h.txs_hashes))

\* a mined header with 255 tips and a timestamp above 2^64 was written and
\* read back
C3_Witness ==
    /\ hpc = "read"
    /\ Len(header[1].tips) = 255
    /\ header[1].timestamp.hi > 0
    /\ header[1].nonce > 65535
    /\ decoded[1].ok

(***************************************************************************)
(* C5.  Work-hash stability: headers that agree on version, height, tips   *)
(* and txs_hashes have the same get_work and get_work_hash, whatever their *)
(* nonce, timestamp, extra_nonce and miner: after any sequence of          *)
(* set_miner, set_extra_nonce, nonce and timestamp updates the header      *)
(* still has the work and the work hash cached when it was built.          *)
(***************************************************************************)
SameWorkFields(a, b) ==
    /\ a.version = b.version /\ a.height = b.height
    /\ a.tips = b.tips /\ a.txs_hashes = b.txs_hashes

C5_WorkHashStable ==
    hpc # "idle" =>
        /\ get_work(header[1]) = cachedWork[1].work
        /\ get_work_hash(header[1]) = cachedWork[1].work_hash
        /\ SameWorkFields(prev[1], header[1]) =>
              /\ get_work(prev[1]) = get_work(header[1])
              /\ get_work_hash(prev[1]) = get_work_hash(header[1])

\* the miner has changed all four of nonce, timestamp, extra_nonce and miner
\* since the header was built, the miner key last
C5_Witness ==
    /\ hpc = "mining" /\ op = "set_miner"
    /\ header[1].nonce # 0
    /\ header[1].timestamp # FirstOf(Timestamps)
    /\ header[1].extra_nonce # FirstOf(ExtraNonces)
    /\ header[1].miner # FirstOf(KeyIds)
    /\ get_work_hash(header[1]) = cachedWork[1].work_hash

(***************************************************************************)
(* C6.  Identity sensitivity, the digest being collision-free: a change of *)
(* nonce, timestamp, extra_nonce or miner changes get_pow_hash and the     *)
(* Hashable identity hash, which are the same digest of the same buffer;   *)
(* a change of tips or txs_hashes, in content or in order, changes         *)
(* get_work_hash and with it get_pow_hash and the identity hash.           *)
(***************************************************************************)
C6_IdentitySensitive ==
    hpc # "idle" =>
        LET a == prev[1]
            b == header[1]
        IN  /\ get_pow_hash(b) = BlockHeader_hash(b)
            /\ ( \/ a.nonce # b.nonce \/ a.timestamp # b.timestamp
                 \/ a.extra_nonce # b.extra_nonce \/ a.miner # b.miner ) =>
                    /\ get_pow_hash(a) # get_pow_hash(b)
                    /\ BlockHeader_hash(a) # BlockHeader_hash(b)
            /\ (a.tips # b.tips \/ a.txs_hashes # b.txs_hashes) =>
                    /\ get_work_hash(a) # get_work_hash(b)
                    /\ get_pow_hash(a) # get_pow_hash(b)
                    /\ BlockHeader_hash(a) # BlockHeader_hash(b)

\* the last operation changed the timestamp above its low 64 bits only
C6_Witness ==
    /\ hpc = "mining" /\ op = "timestamp"
    /\ prev[1].timestamp.lo = header[1].timestamp.lo
    /\ prev[1].timestamp.hi # header[1].timestamp.hi
    /\ get_pow_hash(prev[1]) # get_pow_hash(header[1])

(***************************************************************************)
(* C7.  Fixed buffer sizes: for every header, whatever its number of tips  *)
(* and transaction hashes, get_work() is exactly HEADER_WORK_SIZE = 73     *)
(* bytes and get_serialized_header() exactly BLOCK_WORK_SIZE = 120 bytes,  *)
(* laid out as work_hash(32), timestamp(16), nonce(8), extra_nonce(32),    *)
(* miner(32); neither size check panics.                                   *)
(***************************************************************************)
C7_FixedBufferSizes ==
    hpc # "idle" =>
        LET h == header[1]
            w == get_work(h)
            b == get_serialized_header(h)
        IN  /\ Len(w) = 73
            /\ Len(b) = 120
            /\ ~panicked
            /\ SubSeq(b, 1, 32) = get_work_hash(h)
            /\ from_be_bytes(SubSeq(b, 33, 40)) = h.timestamp.hi
            /\ from_be_bytes(SubSeq(b, 41, 48)) = h.timestamp.lo
            /\ from_be_bytes(SubSeq(b, 49, 56)) = h.nonce
            /\ SubSeq(b, 57, 88) = h.extra_nonce
            /\ SubSeq(b, 89, 120) = PublicKey_as_bytes(h.miner)

\* a header with no tip and no transaction hash has been mined
C7_Witness ==
    /\ hpc = "mining" /\ op = "nonce"
    /\ header[1].tips = <<>> /\ header[1].txs_hashes = <<>>
    /\ Len(get_work(header[1])) = HEADER_WORK_SIZE
    /\ Len(get_serialized_header(header[1])) = BLOCK_WORK_SIZE

(***************************************************************************)
(* block/mod.rs: Block.  A Transaction is written in its own encoding; the *)
(* model keeps of it one 64-bit field, written on 8 bytes.                 *)
(***************************************************************************)
TRANSACTION_SIZE == 8
Transaction_new(nonce) == [nonce |-> nonce]
Transaction_write(tx) == write_u64(tx.nonce)
Transaction_read(rd) ==
    LET nonce == read_u64(rd)
    IN  IF ~nonce.ok THEN nonce ELSE Ok(Transaction_new(nonce.val), nonce.rd)

get_txs_count(h) == Len(h.txs_hashes)

Block_new(header_, transactions) == [header |-> header_, transactions |-> transactions]
Block_get_txs_count(b) == Len(b.transactions)

Block_write(b) ==
    BlockHeader_write(b.header)
        \o Concat([i \in 1..Len(b.transactions) |-> Transaction_write(b.transactions[i])],
                  TRANSACTION_SIZE)

\* for _ in 0..n { Transaction::read(reader)? }
RECURSIVE ReadTransactions(_, _, _)
ReadTransactions(rd, n, txs) ==
    IF n = 0 THEN Ok(txs, rd)
    ELSE LET tx == Transaction_read(rd)
         IN  IF ~tx.ok THEN tx ELSE ReadTransactions(tx.rd, n - 1, Append(txs, tx.val))

\* a reader that takes transactions for as long as bytes follow the header
Block_read_UntilEnd(rd) ==
    LET header_ == BlockHeader_read(rd)
    IN  IF ~header_.ok THEN header_
        ELSE LET txs == ReadTransactions(header_.rd,
                           (Len(rd.bytes) - header_.rd.pos) \div TRANSACTION_SIZE, <<>>)
             IN  IF ~txs.ok THEN txs ELSE Ok(Block_new(header_.val, txs.val), txs.rd)

Block_read(rd) ==
    LET header_ == BlockHeader_read(rd)
    IN  IF ~header_.ok THEN header_
        ELSE LET txs == ReadTransactions(header_.rd, get_txs_count(header_.val), <<>>)
             IN  IF ~txs.ok THEN txs ELSE Ok(Block_new(header_.val, txs.val), txs.rd)

\* #[serde(serialize_with)]: the timestamp as u64, a JSON number
serialize_timestamp(timestamp) == timestamp.lo
\* #[serde(deserialize_with)]: a u64 as u128
deserialize_timestamp(n) == [hi |-> 0, lo |-> n]

Transactions == {Transaction_new(n) : n \in {7, 70000}}

BlockHeaders ==
    {BlockHeader_new(1, 300, t, p[1], FirstOf(ExtraNonces), FirstOf(KeyIds), p[2]) :
        t \in Timestamps, p \in TipsAndTxs}

\* every header with every list of transactions, whatever the header states
Blocks == {Block_new(h, txs) : h \in BlockHeaders, txs \in SeqsUpTo(Transactions, MaxList)}

(***************************************************************************)
(* The block's life cycle: built by Block::new, then either written and    *)
(* read back, or its header's timestamp put into the JSON form and back.   *)
(***************************************************************************)
BlockInit ==
    /\ pc = "start"
    /\ req = None /\ reqWire = <<>> /\ reqRead = None
    /\ dag = None
    /\ resp = None /\ respWire = <<>> /\ respRead = None
    /\ hpc = "idle"
    /\ header = None /\ prev = None /\ op = "none" /\ cachedWork = None
    /\ panicked = FALSE
    /\ wire = <<>> /\ decoded = None
    /\ TakeIdle /\ RpcIdle
    /\ bpc = "built"
    /\ \E b \in Blocks : block = Some(b)
    /\ blockWire = <<>> /\ blockRead = None
    /\ json = None /\ jsonRead = None

outsideBlock == <<syncVars, headerVars, takeVars, rpcVars>>

WriteBlock ==
    /\ bpc = "built"
    /\ blockWire' = Block_write(block[1])
    /\ bpc' = "written"
    /\ UNCHANGED <<block, blockRead, json, jsonRead>>
    /\ UNCHANGED outsideBlock

ReadBlock ==
    /\ bpc = "written"
    /\ blockRead' = Some(Block_read(Reader(blockWire)))
    /\ bpc' = "read"
    /\ UNCHANGED <<block, blockWire, json, jsonRead>>
    /\ UNCHANGED outsideBlock

SerializeTimestamp ==
    /\ bpc = "built"
    /\ json' = Some(serialize_timestamp(block[1].header.timestamp))
    /\ bpc' = "json"
    /\ UNCHANGED <<block, blockWire, blockRead, jsonRead>>
    /\ UNCHANGED outsideBlock

DeserializeTimestamp ==
    /\ bpc = "json"
    /\ jsonRead' = Some(deserialize_timestamp(json[1]))
    /\ bpc' = "jsonRead"
    /\ UNCHANGED <<block, blockWire, blockRead, json>>
    /\ UNCHANGED outsideBlock

BlockNext == WriteBlock \/ ReadBlock \/ SerializeTimestamp \/ DeserializeTimestamp

SpecBlock == BlockInit /\ [][BlockNext]_vars

\* the first n transactions of a list
FirstTransactions(txs, n) == SubSeq(txs, 1, Min(n, Len(txs)))

(***************************************************************************)
(* C11, as stated: a Block built by Block::new from a header with two      *)
(* transaction hashes and only one transaction is accepted by              *)
(* construction, and decoding the bytes written from it succeeds.          *)
(***************************************************************************)
C11_MismatchDecodes ==
    (/\ bpc = "read"
     /\ get_txs_count(block[1].header) = 2
     /\ Block_get_txs_count(block[1]) = 1)
        => blockRead[1].ok

(***************************************************************************)
(* C11, amended: Block::new and Block::write accept a Block whose          *)
(* transactions are not as many as its header's txs_hashes, and            *)
(* Block::read compares nothing, but it reads as many transactions as the  *)
(* decoded header has hashes: with fewer transactions written the decode   *)
(* fails for want of bytes, with as many or more it succeeds and returns   *)
(* the header and the first txs_hashes.len() transactions, leaving the     *)
(* bytes of the others unread.                                             *)
(***************************************************************************)
C11_MismatchFailsToDecode ==
    bpc = "read" =>
        LET b == block[1]
            n == get_txs_count(b.header)
            r == blockRead[1]
        IN  /\ blockWire = BlockHeader_write(b.header)
                    \o Concat([i \in 1..Len(b.transactions) |->
                                    Transaction_write(b.transactions[i])], TRANSACTION_SIZE)
            /\ Block_get_txs_count(b) < n => ~r.ok /\ r.err = "InvalidSize"
            /\ Block_get_txs_count(b) >= n =>
                    /\ r.ok
                    /\ r.val = Block_new(b.header, FirstTransactions(b.transactions, n))
                    /\ Len(blockWire) - r.rd.pos
                            = (Block_get_txs_count(b) - n) * TRANSACTION_SIZE

C11_Witness ==
    /\ bpc = "read"
    /\ get_txs_count(block[1].header) = 2
    /\ Block_get_txs_count(block[1]) = 1
    /\ ~blockRead[1].ok

(***************************************************************************)
(* The codec on its own: a value built by new (a BlockHeader, a            *)
(* ChainRequest or a ChainResponse, valid or not) is written, the bytes    *)
(* may lose their tail, and they are read.                                 *)
(***************************************************************************)
\* every prefix length up to MaxPrefix is tried, and the Cuts beyond it
MaxPrefix == 300

\* n hashes, the 256th and later ones repeating earlier ones
HashList(n) == [i \in 1..n |-> HashOf(i % 256)]

\* a hash whose bytes 3.. read as the key k when a reader takes them for a miner
KeyShapedHash(k) == [j \in 1..HASH_SIZE |-> IF j = 3 THEN k ELSE 0]

\* lists as long as, and longer than, the one-byte and two-byte counts can state
LongTipsAndTxs ==
    {<<HashList(255), <<>>>>, <<HashList(256), <<>>>>,
     <<<<HashOf(1), KeyShapedHash(1)>> \o HashList(255), <<>>>>,
     <<<<>>, HashList(256)>>}

CodecHeaders ==
    BlockHeaders
    \cup {BlockHeader_new(1, 300, FirstOf(Timestamps), p[1], FirstOf(ExtraNonces),
                          FirstOf(KeyIds), p[2]) : p \in LongTipsAndTxs}

CodecRequests ==
    Requests
    \cup {ChainRequest_new([i \in 1..n |-> BlockId_new(HashOf(i % 256), 0)],
                           CHAIN_SYNC_RESPONSE_MIN_BLOCKS) : n \in {256, 257}}

CodecResponses ==
    {ChainResponse_new(c, b, t) :
        c \in {None, Some(CommonPoint_new(HashOf(1), 0))},
        b \in IndexSets({HashOf(i) : i \in 1..3}, CHAIN_SYNC_RESPONSE_MAX_BLOCKS + 1),
        t \in IndexSets({HashOf(i) : i \in 3..4}, CHAIN_SYNC_TOP_BLOCKS * TIPS_LIMIT + 1)}
    \cup {ChainResponse_new(None, <<>>, [i \in 1..n |-> HashOf(i % 256)]) : n \in {256, 257}}

\* the lists of a header fit the counts written before them
ValidHeader(h) == Len(h.tips) <= 255 /\ Len(h.txs_hashes) <= 65535

PrefixLens(bytes) ==
    {n \in 0..(Len(bytes) - 1) : n <= MaxPrefix \/ Len(bytes) - n \in Cuts}

CodecInit ==
    /\ \/ /\ \E h \in CodecHeaders :
                /\ header = Some(h) /\ prev = Some(h)
                /\ cachedWork = Some(Cached(h))
                /\ panicked = Panics(h)
          /\ hpc = "mining" /\ op = "new"
          /\ pc = "none" /\ req = None /\ resp = None
       \/ /\ \E r \in CodecRequests : req = Some(r)
          /\ pc = "reqBuilt" /\ resp = None
          /\ hpc = "idle" /\ header = None /\ prev = None /\ op = "none"
          /\ cachedWork = None /\ panicked = FALSE
       \/ /\ \E r \in CodecResponses : resp = Some(r)
          /\ pc = "respBuilt" /\ req = None
          /\ hpc = "idle" /\ header = None /\ prev = None /\ op = "none"
          /\ cachedWork = None /\ panicked = FALSE
    /\ reqWire = <<>> /\ reqRead = None
    /\ dag = None
    /\ respWire = <<>> /\ respRead = None
    /\ wire = <<>> /\ decoded = None
    /\ TakeIdle /\ BlockIdle /\ RpcIdle

PrefixHeader ==
    /\ hpc = "written"
    /\ ValidHeader(header[1])
    /\ \E n \in PrefixLens(wire) : wire' = SubSeq(wire, 1, n)
    /\ hpc' = "cut"
    /\ UNCHANGED <<header, prev, op, cachedWork, panicked, decoded>>
    /\ UNCHANGED outsideHeader

PrefixRequest ==
    /\ pc = "reqSent"
    /\ ValidRequest(req[1])
    /\ \E n \in PrefixLens(reqWire) : reqWire' = SubSeq(reqWire, 1, n)
    /\ pc' = "reqCut"
    /\ UNCHANGED <<req, reqRead, dag, resp, respWire, respRead>>
    /\ UNCHANGED outsideRoundTrip

PrefixResponse ==
    /\ pc = "respSent"
    /\ ValidResponse(resp[1])
    /\ \E n \in PrefixLens(respWire) : respWire' = SubSeq(respWire, 1, n)
    /\ pc' = "respCut"
    /\ UNCHANGED <<req, reqWire, reqRead, dag, resp, respRead>>
    /\ UNCHANGED outsideRoundTrip

CodecNext ==
    \/ WriteHeader \/ PrefixHeader \/ ReadHeader
    \/ WriteRequest \/ PrefixRequest \/ ReadRequest
    \/ WriteResponse \/ PrefixResponse \/ ReadResponse

SpecCodec == CodecInit /\ [][CodecNext]_vars

(***************************************************************************)
(* The header's wire layout, read off the bytes without any validation:    *)
(* version(1) height(8) timestamp(16) nonce(8) extra_nonce(32)             *)
(* tip_count(1) hash x tip_count tx_count(2) hash x tx_count miner(32).    *)
(***************************************************************************)
HdrTipOff == 1 + 8 + 16 + 8 + EXTRA_NONCE_SIZE
HdrHasTipCount(w) == Len(w) >= HdrTipOff + 1
HdrTipCount(w) == w[HdrTipOff + 1]
HdrTxOff(w) == HdrTipOff + 1 + HASH_SIZE * HdrTipCount(w)
HdrHasTxCount(w) == HdrHasTipCount(w) /\ Len(w) >= HdrTxOff(w) + 2
HdrTxCount(w) == from_be_bytes(SubSeq(w, HdrTxOff(w) + 1, HdrTxOff(w) + 2))
HdrMinerOff(w) == HdrTxOff(w) + 2 + HASH_SIZE * HdrTxCount(w)
\* enough bytes follow the two counts
HdrEnoughBytes(w) == HdrHasTxCount(w) /\ Len(w) >= HdrMinerOff(w) + KEY_LENGTH
HdrMinerIsKey(w) ==
    PublicKey_from_bytes(SubSeq(w, HdrMinerOff(w) + 1, HdrMinerOff(w) + KEY_LENGTH)).ok

(***************************************************************************)
(* C12.  BlockHeader::read applies no bound to the tip count or to the     *)
(* transaction-hash count: whatever the one-byte tip count (0..255) and    *)
(* the two-byte transaction count state, the read succeeds as soon as      *)
(* enough bytes follow them (and the miner bytes are a key), and the       *)
(* decoded header has exactly that many tips and transaction hashes, also  *)
(* when the tip count is above TIPS_LIMIT; it fails only for want of bytes *)
(* or for a miner that is no key.                                          *)
(***************************************************************************)
C12_HeaderCountsUnbounded ==
    decoded # None =>
        LET r == decoded[1]
        IN  /\ (HdrEnoughBytes(wire) /\ HdrMinerIsKey(wire)) =>
                    /\ r.ok
                    /\ Len(r.val.tips) = HdrTipCount(wire)
                    /\ Len(r.val.txs_hashes) = HdrTxCount(wire)
                    /\ r.rd.pos = HdrMinerOff(wire) + KEY_LENGTH
            /\ ~HdrEnoughBytes(wire) => ~r.ok /\ r.err = "InvalidSize"
            /\ (HdrEnoughBytes(wire) /\ ~HdrMinerIsKey(wire)) =>
                    ~r.ok /\ r.err = "ErrorTryInto"

\* a header of 255 tips, far above the tip limit, was decoded
C12_Witness ==
    /\ decoded # None
    /\ decoded[1].ok
    /\ Len(decoded[1].val.tips) = 255
    /\ Len(decoded[1].val.tips) > TIPS_LIMIT

StrictPrefix(p, bytes) == Len(p) < Len(bytes) /\ p = SubSeq(bytes, 1, Len(p))

\* a read result is a whole value with the reader's position, or an error alone
WholeOrError(r, fields) ==
    IF r.ok THEN DOMAIN r = {"ok", "val", "rd"} /\ DOMAIN r.val = fields
    ELSE DOMAIN r = {"ok", "err"}

HeaderFields ==
    {"version", "height", "timestamp", "nonce", "extra_nonce", "tips", "txs_hashes", "miner"}
RequestFields == {"blocks", "accepted_response_size"}
ResponseFields == {"common_point", "blocks", "top_blocks"}

(***************************************************************************)
(* C13.  Decoding is all-or-nothing: reading a strict prefix of the bytes  *)
(* written for a valid BlockHeader, ChainRequest or ChainResponse returns  *)
(* an error (the first read that finds no bytes: InvalidSize), never a     *)
(* value; and every read, of truncated bytes, of a count out of range or   *)
(* of a repeated hash, returns either a whole message or the error alone,  *)
(* with no partially filled message.                                       *)
(***************************************************************************)
C13_DecodeAllOrNothing ==
    /\ decoded # None =>
          /\ WholeOrError(decoded[1], HeaderFields)
          /\ (ValidHeader(header[1]) /\ StrictPrefix(wire, BlockHeader_write(header[1]))) =>
                ~decoded[1].ok /\ decoded[1].err = "InvalidSize"
    /\ reqRead # None =>
          /\ WholeOrError(reqRead[1], RequestFields)
          /\ (ValidRequest(req[1]) /\ StrictPrefix(reqWire, ChainRequest_write(req[1]))) =>
                ~reqRead[1].ok /\ reqRead[1].err = "InvalidSize"
          /\ (~ValidRequest(req[1]) /\ reqWire = ChainRequest_write(req[1])) =>
                ~reqRead[1].ok /\ reqRead[1].err = "InvalidValue"
    /\ respRead # None =>
          /\ WholeOrError(respRead[1], ResponseFields)
          /\ (ValidResponse(resp[1]) /\ StrictPrefix(respWire, ChainResponse_write(resp[1]))) =>
                ~respRead[1].ok /\ respRead[1].err = "InvalidSize"

\* a valid response with two top blocks lost its last byte and was read
C13_Witness ==
    /\ pc = "respRead"
    /\ ValidResponse(resp[1])
    /\ Len(resp[1].top_blocks) = 2
    /\ StrictPrefix(respWire, ChainResponse_write(resp[1]))
    /\ Len(respWire) = Len(ChainResponse_write(resp[1])) - 1
    /\ ~respRead[1].ok

\* no hash twice in blocks, none twice in top_blocks, none in both
SetsDisjoint(r) ==
    /\ NoDuplicates(r.blocks)
    /\ NoDuplicates(r.top_blocks)
    /\ Range(r.blocks) \cap Range(r.top_blocks) = {}

Low64(t) == [hi |-> 0, lo |-> t.lo]

(***************************************************************************)
(* C15, as stated: the header's timestamp is stored truncated to 64 bits   *)
(* on the wire: after BlockHeader::write followed by BlockHeader::read the *)
(* decoded timestamp equals the original timestamp modulo 2^64.            *)
(***************************************************************************)
C15_TimestampTruncatedOnWire ==
    (bpc = "read" /\ blockRead[1].ok) =>
        blockRead[1].val.header.timestamp = Low64(block[1].header.timestamp)

(***************************************************************************)
(* C15, amended: the header's timestamp is a u128 written whole, on 16     *)
(* bytes, by BlockHeader::write: after write followed by read the decoded  *)
(* timestamp equals the original one, above 2^64 too.  It is the JSON form *)
(* of the header that keeps 64 bits: serialize_timestamp gives the         *)
(* timestamp modulo 2^64 and deserialize_timestamp reads that back.        *)
(***************************************************************************)
C15_TimestampWholeOnWire ==
    /\ bpc \in {"written", "read"} =>
          SubSeq(blockWire, 1 + 8 + 1, 1 + 8 + 16) = u128_to_be_bytes(block[1].header.timestamp)
    /\ (bpc = "read" /\ blockRead[1].ok) =>
          blockRead[1].val.header.timestamp = block[1].header.timestamp
    /\ bpc \in {"json", "jsonRead"} => json[1] = block[1].header.timestamp.lo
    /\ bpc = "jsonRead" => jsonRead[1] = Low64(block[1].header.timestamp)

\* a header with a timestamp above 2^64 was written and read back whole
C15_Witness ==
    /\ bpc = "read"
    /\ blockRead[1].ok
    /\ block[1].header.timestamp.hi > 0
    /\ blockRead[1].val.header.timestamp.hi = block[1].header.timestamp.hi

(***************************************************************************)
(* json_rpc.rs: JsonRPCClient.  Several tasks share one client and invoke  *)
(* call, call_with, notify and notify_with on it concurrently; an          *)
(* invocation of call / call_with is two steps, the fetch_add on the       *)
(* counter and the post of the body, and other tasks run between them.     *)
(* The counter stays far below usize::MAX within MaxCalls invocations of   *)
(* all the tasks together.                                                 *)
(***************************************************************************)
MaxTasks == 2
MaxCalls == 4

JSON_RPC_VERSION == "2.0"
Tasks == 1..MaxTasks
Methods == {"get_info"}
Params == {"height"}

\* AtomicUsize::fetch_add(1, SeqCst) that leaves the counter as it was
fetch_add_NoIncrement(c) == [returned |-> c, count |-> c]

\* AtomicUsize::fetch_add(1, SeqCst): one indivisible read-modify-write
fetch_add(c) == [returned |-> c, count |-> c + 1]

JsonRPCClient_new == [count |-> 0]

call_body(method, id) == [jsonrpc |-> JSON_RPC_VERSION, method |-> method, id |-> id]
call_with_body(method, id, params) ==
    [jsonrpc |-> JSON_RPC_VERSION, method |-> method, id |-> id, params |-> params]
notify_body(method) == [jsonrpc |-> JSON_RPC_VERSION, method |-> method]
notify_with_body(method, params) ==
    [jsonrpc |-> JSON_RPC_VERSION, method |-> method, params |-> params]

IdleTask == [pc |-> "idle", kind |-> "none", id |-> None]

\* the invocations begun so far: a body posted, or an id fetched and not yet sent
Started == BagCardinality(posted) + Cardinality({t \in Tasks : tasks[t].pc = "fetched"})

RpcInit ==
    /\ pc = "start"
    /\ req = None /\ reqWire = <<>> /\ reqRead = None
    /\ dag = None
    /\ resp = None /\ respWire = <<>> /\ respRead = None
    /\ hpc = "idle"
    /\ header = None /\ prev = None /\ op = "none" /\ cachedWork = None
    /\ panicked = FALSE
    /\ wire = <<>> /\ decoded = None
    /\ TakeIdle /\ BlockIdle
    /\ count = JsonRPCClient_new.count
    /\ tasks = [t \in Tasks |-> IdleTask]
    /\ posted = EmptyBag

outsideRpc == <<syncVars, headerVars, takeVars, blockVars>>

\* call / call_with, first step: let id = self.count.fetch_add(1, SeqCst)
Fetch(t, kind) ==
    /\ tasks[t].pc = "idle"
    /\ Started < MaxCalls
    /\ LET f == fetch_add(count)
       IN  /\ count' = f.count
           /\ tasks' = [tasks EXCEPT ![t] =
                           [pc |-> "fetched", kind |-> kind, id |-> Some(f.returned)]]
    /\ UNCHANGED posted
    /\ UNCHANGED outsideRpc

\* call / call_with, second step: self.send(json!({.., "id": id, ..}))
Send(t) ==
    /\ tasks[t].pc = "fetched"
    /\ \E m \in Methods, p \in Params :
          posted' = posted (+) SetToBag({IF tasks[t].kind = "call"
                                             THEN call_body(m, tasks[t].id[1])
                                             ELSE call_with_body(m, tasks[t].id[1], p)})
    /\ tasks' = [tasks EXCEPT ![t].pc = "awaiting"]
    /\ UNCHANGED count
    /\ UNCHANGED outsideRpc

Call == \E t \in Tasks : Fetch(t, "call")
CallWith == \E t \in Tasks : Fetch(t, "call_with")
SendCall == \E t \in Tasks : Send(t)

\* notify: self.http.post(..).json(&json!({"jsonrpc": .., "method": method}))
Notify ==
    \E t \in Tasks, m \in Methods :
        /\ tasks[t].pc = "idle"
        /\ Started < MaxCalls
        /\ posted' = posted (+) SetToBag({notify_body(m)})
        /\ tasks' = [tasks EXCEPT ![t] =
                        [pc |-> "awaiting", kind |-> "notify", id |-> None]]
        /\ UNCHANGED count
        /\ UNCHANGED outsideRpc

NotifyWith ==
    \E t \in Tasks, m \in Methods, p \in Params :
        /\ tasks[t].pc = "idle"
        /\ Started < MaxCalls
        /\ posted' = posted (+) SetToBag({notify_with_body(m, p)})
        /\ tasks' = [tasks EXCEPT ![t] =
                        [pc |-> "awaiting", kind |-> "notify_with", id |-> None]]
        /\ UNCHANGED count
        /\ UNCHANGED outsideRpc

\* the server's answer arrives and the invocation returns
Return ==
    \E t \in Tasks :
        /\ tasks[t].pc = "awaiting"
        /\ tasks' = [tasks EXCEPT ![t] = IdleTask]
        /\ UNCHANGED <<count, posted>>
        /\ UNCHANGED outsideRpc

RpcNext == Call \/ CallWith \/ SendCall \/ Notify \/ NotifyWith \/ Return

SpecRpc == RpcInit /\ [][RpcNext]_vars

\* the ids of the bodies posted, and the ids fetched and not yet sent
PostedWithId == {b \in BagToSet(posted) : "id" \in DOMAIN b}
PostedIds == {b.id : b \in PostedWithId}
Fetched == {t \in Tasks : tasks[t].pc = "fetched"}
HeldIds == {tasks[t].id[1] : t \in Fetched}

\* no id was obtained by two invocations, and the ids obtained are 0 .. count - 1
IdsUnique ==
    /\ \A b \in PostedWithId : CopiesIn(b, posted) = 1
    /\ \A b1, b2 \in PostedWithId : b1.id = b2.id => b1 = b2
    /\ \A t1, t2 \in Fetched : tasks[t1].id = tasks[t2].id => t1 = t2
    /\ HeldIds \cap PostedIds = {}
    /\ HeldIds \cup PostedIds = 0..(count - 1)

\* a step that begins a call or a call_with obtains the counter's value and
\* adds one to the counter
FetchInOrder ==
    \A t \in Tasks :
        (tasks[t].pc = "idle" /\ tasks'[t].pc = "fetched") =>
            /\ tasks'[t].id = Some(count)
            /\ count' = count + 1
            /\ posted' = posted

\* a step that is a notify or a notify_with posts one body without an id and
\* leaves the counter as it was
NotifyKeepsCounter ==
    \A t \in Tasks :
        (tasks[t].pc = "idle" /\ tasks'[t].pc = "awaiting") =>
            /\ count' = count
            /\ BagCardinality(posted') = BagCardinality(posted) + 1
            /\ \A b \in BagToSet(posted') :
                  CopiesIn(b, posted') > CopiesIn(b, posted) => "id" \notin DOMAIN b

(***************************************************************************)
(* C16.  JSON-RPC call ids are unique per client under concurrency:        *)
(* whatever the interleaving of call and call_with invocations of the      *)
(* tasks sharing one JsonRPCClient, no two invocations obtain the same id, *)
(* the ids obtained are 0, 1, 2, ... in the order of the fetches, and a    *)
(* notify or notify_with posts a body without an id and does not change    *)
(* the counter.                                                            *)
(***************************************************************************)
C16_CallIdsUnique ==
    /\ [](tasks # <<>> => IdsUnique)
    /\ [][tasks # <<>> => (FetchInOrder /\ NotifyKeepsCounter)]_vars

\* two invocations are between their fetch and their post at the same time,
\* after a call and a notify of the same client were posted
C16_Witness ==
    /\ tasks # <<>>
    /\ tasks[1].pc = "fetched" /\ tasks[1].kind = "call"
    /\ tasks[2].pc = "fetched" /\ tasks[2].kind = "call_with"
    /\ tasks[1].id # tasks[2].id
    /\ tasks[2].id = Some(1) /\ tasks[1].id = Some(2)
    /\ count = 3
    /\ \E b \in BagToSet(posted) : "id" \notin DOMAIN b

(***************************************************************************)
(* C17.  ChainResponse::get_common_point is consuming: on a decoded        *)
(* response the first call returns the common point the response held and  *)
(* clears the field, every later call returns None, blocks and top_blocks  *)
(* are as they were, and a write performed after the call encodes          *)
(* has_common_point = 0 followed by the two sets.                          *)
(***************************************************************************)
C17_GetCommonPointConsumes ==
    /\ pc \in {"taken", "rewritten"} =>
          LET before == respRead[1].val
          IN  /\ got[1] = before.common_point
              /\ \A i \in 2..Len(got) : got[i] = None
              /\ held[1].common_point = None
              /\ held[1].blocks = before.blocks
              /\ held[1].top_blocks = before.top_blocks
    /\ pc = "rewritten" =>
          LET before == respRead[1].val
          IN  /\ rewire[1] = 0
              /\ rewire = write_u8(0)
                            \o write_u16(Len(before.blocks)) \o Concat(before.blocks, HASH_SIZE)
                            \o write_u8(Len(before.top_blocks))
                            \o Concat(before.top_blocks, HASH_SIZE)

\* a response holding a common point was asked for it twice and then written
C17_Witness ==
    /\ pc = "rewritten"
    /\ respRead[1].val.common_point # None
    /\ respRead[1].val.blocks # <<>>
    /\ Len(got) = 2
    /\ got[1] = respRead[1].val.common_point
    /\ got[2] = None
    /\ rewire[1] = 0
    /\ respWire[1] = 1

\* the bytes of a list of hashes at a place of a message
HashesAt(w, off, hashes) ==
    SubSeq(w, off + 1, off + HASH_SIZE * Len(hashes)) = Concat(hashes, HASH_SIZE)

\* a read that gives back the value written
Returns(result, value) == result.ok /\ result.val = value

(***************************************************************************)
(* C18.  Encoding never validates or fails, and its length prefixes wrap:  *)
(* BlockHeader::write emits tips.len() mod 2^8 and txs_hashes.len() mod    *)
(* 2^16, ChainRequest::write emits the checkpoint count mod 2^8,           *)
(* ChainResponse::write emits the blocks count mod 2^16 and the top_blocks *)
(* count mod 2^8, every element being written all the same.  So the read   *)
(* of the bytes written for a value built by new whose list is longer than *)
(* its prefix can state, or is outside the decoder's bounds (an empty      *)
(* ChainRequest), does not return that value.                              *)
(***************************************************************************)
C18_EncodingTruncatesCounts ==
    /\ hpc \in {"written", "read"} =>
          LET h == header[1]
              txOff == HdrTipOff + 1 + HASH_SIZE * Len(h.tips)
          IN  /\ wire[HdrTipOff + 1] = Len(h.tips) % 256
              /\ HashesAt(wire, HdrTipOff + 1, h.tips)
              /\ SubSeq(wire, txOff + 1, txOff + 2) = to_be_bytes(Len(h.txs_hashes) % 65536, 2)
              /\ HashesAt(wire, txOff + 2, h.txs_hashes)
              /\ Len(wire) = txOff + 2 + HASH_SIZE * Len(h.txs_hashes) + KEY_LENGTH
              /\ (hpc = "read" /\ ~ValidHeader(h)) => ~Returns(decoded[1], h)
    /\ pc \in {"reqSent", "reqRead"} /\ reqWire = ChainRequest_write(req[1]) =>
          LET r == req[1]
          IN  /\ reqWire[1] = Len(r.blocks) % 256
              /\ Len(reqWire) = 1 + BLOCK_ID_SIZE * Len(r.blocks) + 2
              /\ \A i \in 1..Len(r.blocks) :
                    SubSeq(reqWire, 1 + BLOCK_ID_SIZE * (i - 1) + 1, 1 + BLOCK_ID_SIZE * i)
                        = BlockId_write(r.blocks[i])
              /\ (pc = "reqRead" /\ ~ValidRequest(r)) => ~Returns(reqRead[1], r)
    /\ pc \in {"respSent", "respRead"} /\ respWire = ChainResponse_write(resp[1]) =>
          LET r == resp[1]
              off == IF r.common_point = None THEN 1 ELSE 1 + BLOCK_ID_SIZE
              topOff == off + 2 + HASH_SIZE * Len(r.blocks)
          IN  /\ SubSeq(respWire, off + 1, off + 2) = to_be_bytes(Len(r.blocks) % 65536, 2)
              /\ HashesAt(respWire, off + 2, r.blocks)
              /\ respWire[topOff + 1] = Len(r.top_blocks) % 256
              /\ HashesAt(respWire, topOff + 1, r.top_blocks)
              /\ Len(respWire) = topOff + 1 + HASH_SIZE * Len(r.top_blocks)
              /\ (pc = "respRead" /\ ~ValidResponse(r)) => ~Returns(respRead[1], r)

\* a header of 257 tips was written with a tip count of 1, and the read of
\* those bytes gave a header of one tip
C18_Witness ==
    /\ hpc = "read"
    /\ Len(header[1].tips) = 257
    /\ wire[HdrTipOff + 1] = 1
    /\ Len(wire) = 100 + HASH_SIZE * 257
    /\ decoded[1].ok
    /\ Len(decoded[1].val.tips) = 1

=============================================================================
